---------------------------- MODULE Spec2Model ----------------------------
(***************************************************************************)
(* Model of kk-konsumsi (src/app.py): the text matcher is_similar, the     *)
(* categorizer categorize_description, the quantity extractor              *)
(* extract_rice_quantity and the aggregation pipeline process_data.        *)
(*                                                                         *)
(* Texts are Python str values restricted to printable ASCII.  In the      *)
(* state they are written as TLA+ strings; the operators below work on     *)
(* their sequence of code points (Str), as the Python code does.           *)
(*                                                                         *)
(* fuzz.ratio, fuzz.partial_ratio and fuzz.token_sort_ratio are those of   *)
(* fuzzywuzzy on its pure-Python backend, difflib.SequenceMatcher.         *)
(***************************************************************************)
EXTENDS Integers, Sequences, FiniteSets, TLC

VARIABLES
    description,     \* SpecText: the argument the pure functions are applied to
    category,        \* SpecText: Some(categorize_description(description)), or None
    rice_kg,         \* SpecText: Some(extract_rice_quantity(description)), or None
    similar,         \* SpecText: Some(a call of is_similar on description), or None
    uploaded_file,   \* Spec: Some(the table st.file_uploader returned), or None
    processed_data   \* Spec: Some(the dict process_data returned), or None

vars == <<description, category, rice_kg, similar, uploaded_file, processed_data>>

\* A value that may be absent is a list of at most one element: None is the
\* variable before the call that sets it, Some(v) the value v.
None == <<>>
Some(v) == <<v>>

\* The missing value of an object column (float nan); no str equals it.
NaN == "<NaN>"
\* The missing value of a datetime column; a Timestamp is <<year, month, day>>.
NaT == <<>>

(***************************************************************************)
(* Python str, as sequences of code points                                 *)
(***************************************************************************)
\* The characters of the model's texts with their code points: the ASCII
\* letters and digits, and the punctuation the keywords and formats use.
Digits == "0123456789"
Uppers == "ABCDEFGHIJKLMNOPQRSTUVWXYZ"
Lowers == "abcdefghijklmnopqrstuvwxyz"

Ord == [c \in {SubSeq(Digits, i, i) : i \in 1..Len(Digits)} |->
          47 + (CHOOSE i \in 1..Len(Digits) : SubSeq(Digits, i, i) = c)]
       @@ [c \in {SubSeq(Uppers, i, i) : i \in 1..Len(Uppers)} |->
          64 + (CHOOSE i \in 1..Len(Uppers) : SubSeq(Uppers, i, i) = c)]
       @@ [c \in {SubSeq(Lowers, i, i) : i \in 1..Len(Lowers)} |->
          96 + (CHOOSE i \in 1..Len(Lowers) : SubSeq(Lowers, i, i) = c)]
       @@ (" " :> 32) @@ ("'" :> 39) @@ ("," :> 44) @@ ("-" :> 45)
       @@ ("." :> 46) @@ ("/" :> 47) @@ ("_" :> 95)

\* The code points of a string.
Str(s) == [i \in 1..Len(s) |-> Ord[SubSeq(s, i, i)]]

IsUpper(c) == c >= 65 /\ c <= 90
IsLower(c) == c >= 97 /\ c <= 122
IsDigit(c) == c >= 48 /\ c <= 57
IsSpace(c) == c = 32 \/ (c >= 9 /\ c <= 13)
\* \w of Python's re on ASCII text: letters, digits and the underscore.
IsWord(c) == IsUpper(c) \/ IsLower(c) \/ IsDigit(c) \/ c = 95

\* str.lower()
lower(t) == [i \in 1..Len(t) |-> IF IsUpper(t[i]) THEN t[i] + 32 ELSE t[i]]

\* Whether k occurs in t at 0-based offset i.
OccursAt(k, t, i) == i + Len(k) <= Len(t) /\ SubSeq(t, i + 1, i + Len(k)) = k

\* k in t
Contains(t, k) == \E i \in 0..(Len(t) - Len(k)) : OccursAt(k, t, i)

RECURSIVE LexLess(_, _)
\* s < t on Python str: lexicographic by code point.
LexLess(s, t) ==
    IF t = <<>> THEN FALSE
    ELSE IF s = <<>> THEN TRUE
    ELSE IF Head(s) # Head(t) THEN Head(s) < Head(t)
    ELSE LexLess(Tail(s), Tail(t))

RECURSIVE SumSeq(_)
SumSeq(s) == IF s = <<>> THEN 0 ELSE Head(s) + SumSeq(Tail(s))

RECURSIVE Insert(_, _)
\* x put at its place in the sorted list of texts s, after its equals.
Insert(x, s) ==
    IF s = <<>> THEN <<x>>
    ELSE IF LexLess(x, Head(s)) THEN <<x>> \o s
    ELSE <<Head(s)>> \o Insert(x, Tail(s))

RECURSIVE sorted(_)
\* sorted(s) for a list of str
sorted(s) == IF s = <<>> THEN <<>> ELSE Insert(s[Len(s)], sorted(SubSeq(s, 1, Len(s) - 1)))

RECURSIVE split(_)
\* str.split(): the maximal runs of non-whitespace characters.
split(t) ==
    IF t = <<>> THEN <<>>
    ELSE IF IsSpace(Head(t)) THEN split(Tail(t))
    ELSE LET n == IF \E i \in 1..Len(t) : IsSpace(t[i])
                  THEN (CHOOSE i \in 1..Len(t) :
                           IsSpace(t[i]) /\ \A j \in 1..(i - 1) : ~IsSpace(t[j])) - 1
                  ELSE Len(t)
         IN  <<SubSeq(t, 1, n)>> \o split(SubSeq(t, n + 1, Len(t)))

RECURSIVE join(_, _)
\* sep.join(s)
join(sep, s) ==
    IF s = <<>> THEN <<>>
    ELSE IF Len(s) = 1 THEN s[1]
    ELSE s[1] \o sep \o join(sep, Tail(s))

\* str.strip()
strip(t) ==
    IF \A i \in 1..Len(t) : IsSpace(t[i]) THEN <<>>
    ELSE LET lo == CHOOSE i \in 1..Len(t) : ~IsSpace(t[i]) /\ \A j \in 1..(i - 1) : IsSpace(t[j])
             hi == CHOOSE i \in 1..Len(t) : ~IsSpace(t[i]) /\ \A j \in (i + 1)..Len(t) : IsSpace(t[j])
         IN  SubSeq(t, lo, hi)

(***************************************************************************)
(* difflib.SequenceMatcher(None, a, b), on texts shorter than the 200      *)
(* elements at which its autojunk heuristic starts                         *)
(***************************************************************************)
RECURSIVE RunLen(_, _, _, _, _, _)
\* The length of the common run of a[i..ahi] and b[j..bhi] from their starts.
RunLen(a, i, ahi, b, j, bhi) ==
    IF i > ahi \/ j > bhi \/ a[i] # b[j] THEN 0
    ELSE 1 + RunLen(a, i + 1, ahi, b, j + 1, bhi)

\* find_longest_match(alo, ahi, b, blo, bhi) on 1-based inclusive ranges: the
\* longest block <<i, j, k>> with a[i..i+k-1] = b[j..j+k-1]; of the longest,
\* the one that starts earliest in a, and of those the earliest in b.
\* <<alo, blo, 0>> when the ranges share no element.
find_longest_match(a, alo, ahi, b, blo, bhi) ==
    LET starts == {p \in (alo..ahi) \X (blo..bhi) :
                     /\ a[p[1]] = b[p[2]]
                     /\ (p[1] = alo \/ p[2] = blo \/ a[p[1] - 1] # b[p[2] - 1])}
        blocks == {<<p[1], p[2], RunLen(a, p[1], ahi, b, p[2], bhi)>> : p \in starts}
        Better(x, y) == \/ x[3] > y[3]
                        \/ x[3] = y[3] /\ x[1] < y[1]
                        \/ x[3] = y[3] /\ x[1] = y[1] /\ x[2] <= y[2]
    IN  IF blocks = {} THEN <<alo, blo, 0>>
        ELSE CHOOSE x \in blocks : \A y \in blocks : Better(x, y)

RECURSIVE matching_blocks(_, _, _, _, _, _)
\* The blocks get_matching_blocks() finds in a[alo..ahi], b[blo..bhi].  Without
\* junk no two of them are adjacent, so its merging pass changes nothing.
matching_blocks(a, alo, ahi, b, blo, bhi) ==
    IF alo > ahi \/ blo > bhi THEN {}
    ELSE LET m == find_longest_match(a, alo, ahi, b, blo, bhi)
         IN  IF m[3] = 0 THEN {}
             ELSE {m} \cup matching_blocks(a, alo, m[1] - 1, b, blo, m[2] - 1)
                      \cup matching_blocks(a, m[1] + m[3], ahi, b, m[2] + m[3], bhi)

\* get_matching_blocks(): the blocks and the closing dummy (len(a), len(b), 0),
\* with 0-based starts as difflib reports them.
get_matching_blocks(a, b) ==
    {<<m[1] - 1, m[2] - 1, m[3]>> : m \in matching_blocks(a, 1, Len(a), b, 1, Len(b))}
    \cup {<<Len(a), Len(b), 0>>}

RECURSIVE SumSizes(_)
SumSizes(blocks) ==
    IF blocks = {} THEN 0
    ELSE LET m == CHOOSE x \in blocks : TRUE IN m[3] + SumSizes(blocks \ {m})

\* SequenceMatcher.ratio() as the fraction <<2 * matches, len(a) + len(b)>>;
\* 1.0 when both are empty.
sm_ratio(a, b) ==
    IF Len(a) + Len(b) = 0 THEN <<1, 1>>
    ELSE <<2 * SumSizes(get_matching_blocks(a, b)), Len(a) + Len(b)>>

\* utils.intr(100 * r), int(round(.)) of Python 3: to the nearest integer, a
\* half to the even one.
intr100(r) ==
    LET q == (100 * r[1]) \div r[2]
        rem == (100 * r[1]) % r[2]
    IN  IF 2 * rem > r[2] THEN q + 1
        ELSE IF 2 * rem = r[2] THEN q + (q % 2)
        ELSE q

(***************************************************************************)
(* fuzzywuzzy.fuzz                                                         *)
(***************************************************************************)
\* fuzz.ratio(s1, s2): 100 for equal strings, 0 when one is empty.
fuzz_ratio(s1, s2) ==
    IF s1 = s2 THEN 100
    ELSE IF Len(s1) = 0 \/ Len(s2) = 0 THEN 0
    ELSE intr100(sm_ratio(s1, s2))

\* longer[start:end] of Python, 0-based and clipped to the string.
Slice(t, start, end) ==
    SubSeq(t, start + 1, IF end > Len(t) THEN Len(t) ELSE end)

Max(S) == CHOOSE x \in S : \A y \in S : y <= x

\* fuzz.partial_ratio(s1, s2): the best ratio of the shorter string against the
\* window of the longer one that each matching block aligns it with.
fuzz_partial_ratio(s1, s2) ==
    IF s1 = s2 THEN 100
    ELSE IF Len(s1) = 0 \/ Len(s2) = 0 THEN 0
    ELSE LET shorter == IF Len(s1) <= Len(s2) THEN s1 ELSE s2
             longer == IF Len(s1) <= Len(s2) THEN s2 ELSE s1
             blocks == get_matching_blocks(shorter, longer)
             long_start(block) == IF block[2] - block[1] > 0 THEN block[2] - block[1] ELSE 0
             r(block) == sm_ratio(shorter, Slice(longer, long_start(block),
                                                 long_start(block) + Len(shorter)))
             scores == {r(block) : block \in blocks}
         IN  IF \E x \in scores : 1000 * x[1] > 995 * x[2] THEN 100
             ELSE Max({intr100(x) : x \in scores})

\* utils.full_process(s, force_ascii=True) on ASCII text: every character that
\* is not a letter, a digit or an underscore becomes a space; lower; strip.
full_process(t) ==
    strip(lower([i \in 1..Len(t) |-> IF IsWord(t[i]) THEN t[i] ELSE 32]))

\* fuzz._process_and_sort(s, force_ascii=True, full_process=True)
process_and_sort(t) == strip(join(<<32>>, sorted(split(full_process(t)))))

\* fuzz.token_sort_ratio(s1, s2)
fuzz_token_sort_ratio(s1, s2) == fuzz_ratio(process_and_sort(s1), process_and_sort(s2))

(***************************************************************************)
(* src/app.py                                                              *)
(***************************************************************************)
\* The default threshold of is_similar.
DefaultThreshold == 85

\* is_similar with the direct match left out: the fuzzy scores alone.
is_similar_fuzzy(text, keywords, threshold) ==
    \E n \in 1..Len(keywords) :
        LET keyword == lower(keywords[n])
        IN  \/ fuzz_ratio(lower(text), keyword) >= threshold
            \/ fuzz_partial_ratio(lower(text), keyword) >= threshold
            \/ fuzz_token_sort_ratio(lower(text), keyword) >= threshold

\* is_similar(text, keywords, threshold): keywords is a list of str.
is_similar(text, keywords, threshold) ==
    LET t == lower(text)
    IN  IF \E n \in 1..Len(keywords) : Contains(t, lower(keywords[n])) THEN TRUE
        ELSE \E n \in 1..Len(keywords) :
                LET keyword == lower(keywords[n])
                IN  \/ fuzz_ratio(t, keyword) >= threshold
                    \/ fuzz_partial_ratio(t, keyword) >= threshold
                    \/ fuzz_token_sort_ratio(t, keyword) >= threshold

RECURSIVE DigitsEnd(_, _)
\* The end (exclusive, 1-based) of the run of digits \d+ takes from i.
DigitsEnd(t, i) == IF i <= Len(t) /\ IsDigit(t[i]) THEN DigitsEnd(t, i + 1) ELSE i

RECURSIVE SpacesEnd(_, _)
\* The end (exclusive, 1-based) of the run of whitespace \s* takes from i.
SpacesEnd(t, i) == IF i <= Len(t) /\ IsSpace(t[i]) THEN SpacesEnd(t, i + 1) ELSE i

RECURSIVE int(_)
\* int(s) of a string of decimal digits
int(t) == IF t = <<>> THEN 0 ELSE 10 * int(SubSeq(t, 1, Len(t) - 1)) + (t[Len(t)] - 48)

\* The match of (\d+)(?:\s*)(?:kg|kilogram|kilo) that starts at position i:
\* <<group 1, end>>, or <<>> when there is none.  \d+ and \s* take their whole
\* runs; handing a character back leaves a digit or a space where the unit
\* must start, so no shorter attempt matches.
MatchAt(t, i) ==
    IF i > Len(t) \/ ~IsDigit(t[i]) THEN <<>>
    ELSE LET d == DigitsEnd(t, i)
             w == SpacesEnd(t, d)
             unit == IF OccursAt(Str("kg"), t, w - 1) THEN 2
                     ELSE IF OccursAt(Str("kilogram"), t, w - 1) THEN 8
                     ELSE IF OccursAt(Str("kilo"), t, w - 1) THEN 4
                     ELSE 0
         IN  IF unit = 0 THEN <<>> ELSE <<SubSeq(t, i, d - 1), w + unit>>

RECURSIVE findall(_, _)
\* re.findall(pattern, t) from position pos: group 1 of the leftmost match,
\* then of the matches after its end.
findall(t, pos) ==
    IF pos > Len(t) THEN <<>>
    ELSE LET m == MatchAt(t, pos)
         IN  IF m = <<>> THEN findall(t, pos + 1)
             ELSE <<m[1]>> \o findall(t, m[2])

\* extract_rice_quantity with matches[0] in place of the sum.
extract_first_quantity(text) ==
    LET d == lower(text)
        matches == findall(d, 1)
    IN  IF Contains(d, Str("beras")) /\ matches # <<>> THEN int(matches[1]) ELSE 0

\* extract_rice_quantity(description)
extract_rice_quantity(text) ==
    LET d == lower(text)
        matches == findall(d, 1)
    IN  IF Contains(d, Str("beras")) /\ matches # <<>>
        THEN SumSeq([n \in 1..Len(matches) |-> int(matches[n])])
        ELSE 0

\* The dict categories of categorize_description, in its insertion order.
CategoryNames == <<"GALON", "BERAS", "MINI TRAINING", "JUMSIH", "SYUKURAN", "LAINNYA">>

categories ==
    [c \in {CategoryNames[n] : n \in 1..Len(CategoryNames)} |->
        CASE c = "GALON" -> <<"aqua", "galon", "isi ulang", "air minum", "gallon">>
          [] c = "BERAS" -> <<"beras">>
          [] c = "MINI TRAINING" -> <<"mini training", "training", "pelatihan">>
          [] c = "JUMSIH" -> <<"jumsih", "jumat bersih", "jum'at", "jum at", "bersih">>
          [] c = "SYUKURAN" -> <<"syukuran", "syukur">>
          [] c = "LAINNYA" -> <<>>]

\* A list of str as texts.
Strs(keywords) == [n \in 1..Len(keywords) |-> Str(keywords[n])]

\* The local matches of categorize_description: the categories other than
\* BERAS whose keywords match, in the order of the dict.
matched_categories(d) ==
    SelectSeq(CategoryNames,
              LAMBDA c : c # "BERAS" /\ is_similar(d, Strs(categories[c]), DefaultThreshold))

\* categorize_description with BERAS counted as one more vote instead of
\* being checked first.
categorize_description_beras_votes(text) ==
    LET d == lower(text)
        matches == SelectSeq(CategoryNames,
                             LAMBDA c : is_similar(d, Strs(categories[c]), DefaultThreshold))
    IN  IF Len(matches) # 1 THEN "LAINNYA" ELSE matches[1]

\* categorize_description returning the first matched category when several
\* match.
categorize_description_first_match(text) ==
    LET d == lower(text)
    IN  IF is_similar(d, Strs(<<"beras">>), DefaultThreshold) THEN "BERAS"
        ELSE LET matches == matched_categories(d)
             IN  IF Len(matches) = 0 THEN "LAINNYA" ELSE matches[1]

\* categorize_description testing len(matches) > 1 and falling back to the
\* first category of the dict when nothing matched.
categorize_description_empty_first(text) ==
    LET d == lower(text)
    IN  IF is_similar(d, Strs(<<"beras">>), DefaultThreshold) THEN "BERAS"
        ELSE LET matches == matched_categories(d)
             IN  IF Len(matches) > 1 THEN "LAINNYA"
                 ELSE IF Len(matches) = 1 THEN matches[1]
                 ELSE CategoryNames[1]

\* categorize_description(description)
categorize_description(text) ==
    LET d == lower(text)
    IN  IF is_similar(d, Strs(<<"beras">>), DefaultThreshold) THEN "BERAS"
        ELSE LET matches == matched_categories(d)
             IN  IF Len(matches) # 1 THEN "LAINNYA" ELSE matches[1]

(***************************************************************************)
(* process_data: the table of an upload, as pandas transforms it.  A table *)
(* is a list of rows, a row a function from column names to cell values.   *)
(* The column VOUCHER NO. is carried along unread and is left out.         *)
(***************************************************************************)
\* One cell set.
Col(name, value) == name :> value

\* The days of a month of the Gregorian calendar.
DaysInMonth(y, m) ==
    IF m = 2 THEN (IF (y % 4 = 0 /\ y % 100 # 0) \/ y % 400 = 0 THEN 29 ELSE 28)
    ELSE IF m \in {4, 6, 9, 11} THEN 30
    ELSE 31

\* pd.to_datetime(cell, errors='coerce') on the cells of the model, which are
\* ISO dates YYYY-MM-DD or unparsable text: the Timestamp of a valid date, NaT
\* for anything else.
to_datetime(cell) ==
    LET t == Str(cell)
        wellFormed == /\ Len(t) = 10
                      /\ t[5] = 45 /\ t[8] = 45
                      /\ \A n \in {1, 2, 3, 4, 6, 7, 9, 10} : IsDigit(t[n])
        y == int(SubSeq(t, 1, 4))
        m == int(SubSeq(t, 6, 7))
        d == int(SubSeq(t, 9, 10))
    IN  IF wellFormed /\ y >= 1 /\ m \in 1..12 /\ d \in 1..DaysInMonth(y, m)
        THEN <<y, m, d>>
        ELSE NaT

\* Timestamp a < Timestamp b
DateLess(a, b) ==
    \/ a[1] < b[1]
    \/ a[1] = b[1] /\ a[2] < b[2]
    \/ a[1] = b[1] /\ a[2] = b[2] /\ a[3] < b[3]

\* Whether the row order p is one df.sort_values('TRANS. DATE') can give:
\* ascending dates, NaT last.  The default sort is not stable, so rows of equal
\* date, and rows of NaT, come in any order.
IsSortOrder(df, p) ==
    \A i, j \in 1..Len(df) :
        i < j => LET a == df[p[i]]["TRANS. DATE"]
                     b == df[p[j]]["TRANS. DATE"]
                 IN  /\ (a = NaT => b = NaT)
                     /\ (a # NaT /\ b # NaT => ~DateLess(b, a))

\* The month abbreviations of %b.
MonthAbbr ==
    <<"Jan", "Feb", "Mar", "Apr", "May", "Jun", "Jul", "Aug", "Sep", "Oct", "Nov", "Dec">>

\* The four digits of %Y.
Year4(y) ==
    LET digit(n) == SubSeq(Digits, n + 1, n + 1)
    IN  digit((y \div 1000) % 10) \o digit((y \div 100) % 10)
           \o digit((y \div 10) % 10) \o digit(y % 10)

\* Series.dt.strftime('%b, %Y') on one value: NaN for NaT.
strftime(ts) == IF ts = NaT THEN NaN ELSE MonthAbbr[ts[2]] \o ", " \o Year4(ts[1])

RECURSIVE SortKeys(_)
\* The group keys of a groupby(sort=True) on a column of str: ascending as
\* strings.
SortKeys(S) ==
    IF S = {} THEN <<>>
    ELSE LET k == CHOOSE x \in S : \A y \in S \ {x} : LexLess(Str(x), Str(y))
         IN  <<k>> \o SortKeys(S \ {k})

\* The keys of df.groupby(column): the values of the column, without NaN
\* (dropna=True), sorted.
GroupKeys(df, column) ==
    SortKeys({df[n][column] : n \in 1..Len(df)} \ {NaN})

\* df[df[column] == value]
Where(df, column, value) == SelectSeq(df, LAMBDA row : row[column] = value)

\* df[column].sum()
Sum(df, column) == SumSeq([n \in 1..Len(df) |-> df[n][column]])

\* df.groupby('MONTH-YEAR')['DEBIT'].sum().reset_index()
summary_df(df) ==
    LET keys == GroupKeys(df, "MONTH-YEAR")
    IN  [n \in 1..Len(keys) |->
            Col("MONTH-YEAR", keys[n])
            @@ Col("DEBIT", Sum(Where(df, "MONTH-YEAR", keys[n]), "DEBIT"))]

\* group_sum with first() in place of sum().
group_first(df, period, cat) ==
    LET rows == Where(Where(df, "MONTH-YEAR", period), "CATEGORY", cat)
    IN  IF rows = <<>> THEN 0 ELSE rows[1]["DEBIT"]

\* The DEBIT total of one (MONTH-YEAR, CATEGORY) group.
group_sum(df, period, cat) ==
    Sum(Where(Where(df, "MONTH-YEAR", period), "CATEGORY", cat), "DEBIT")

\* df.groupby(['MONTH-YEAR', 'CATEGORY'])['DEBIT'].sum().unstack(fill_value=0)
\*   .reset_index(): one row per MONTH-YEAR of the groups, one column per
\* CATEGORY of the groups, 0 where a pair has no group.  Rows with a NaN key are
\* in no group.
category_pivot(df) ==
    LET grouped == SelectSeq(df, LAMBDA row : row["MONTH-YEAR"] # NaN)
        keys == GroupKeys(grouped, "MONTH-YEAR")
        columns == {grouped[n]["CATEGORY"] : n \in 1..Len(grouped)}
    IN  [n \in 1..Len(keys) |->
            Col("MONTH-YEAR", keys[n])
            @@ [c \in columns |-> group_sum(grouped, keys[n], c)]]

\* df.groupby('MONTH-YEAR').apply(...).reset_index() of the rice summary
rice_summary(df) ==
    LET keys == GroupKeys(df, "MONTH-YEAR")
    IN  [n \in 1..Len(keys) |->
            LET x == Where(df, "MONTH-YEAR", keys[n])
            IN  Col("MONTH-YEAR", keys[n])
                @@ Col("BERAS_CATEGORY_KG", Sum(Where(x, "CATEGORY", "BERAS"), "RICE KG"))
                @@ Col("LAINNYA_WITH_RICE_KG",
                       Sum(SelectSeq(x, LAMBDA row : row["CATEGORY"] = "LAINNYA" /\ row["RICE KG"] > 0),
                           "RICE KG"))
                @@ Col("TOTAL_RICE_KG", Sum(x, "RICE KG"))]

\* The dict category_dfs: the rows of every category of the table, and the
\* LAINNYA rows with rice.
category_dfs(df) ==
    [c \in {df[n]["CATEGORY"] : n \in 1..Len(df)} |-> Where(df, "CATEGORY", c)]
    @@ Col("LAINNYA_WITH_RICE",
           SelectSeq(df, LAMBDA row : row["CATEGORY"] = "LAINNYA" /\ row["RICE KG"] > 0))

\* The cells of the uploads of the model.
DateCells == {"2024-01-15", "2024-02-01", "2023-12-31", "n/a"}
DescriptionCells == {"AQUA GALON 19L", "BERAS 5KG PREMIUM", "KOPI GULA TEH"}
DebitCells == {15000, 50000}

\* The most rows an upload of the model has.
MaxRows == 2

Rows ==
    {Col("TRANS. DATE", date) @@ Col("DESCRIPTION", desc) @@ Col("DEBIT", debit) :
        date \in DateCells, desc \in DescriptionCells, debit \in DebitCells}

\* The tables pd.read_excel can return in the model.
Files == UNION {[1..n -> Rows] : n \in 0..MaxRows}

\* df['DESCRIPTION'].apply(categorize_description) and
\* df['DESCRIPTION'].apply(extract_rice_quantity), on the cells of the model.
CATEGORY == [desc \in DescriptionCells |-> categorize_description(Str(desc))]
RICE_KG == [desc \in DescriptionCells |-> extract_rice_quantity(Str(desc))]

\* The table df of process_data after its column assignments (lines 76-88),
\* its rows sorted in the order p.
enriched(file, p) ==
    LET dated == [n \in 1..Len(file) |->
                     Col("TRANS. DATE", to_datetime(file[n]["TRANS. DATE"])) @@ file[n]]
        ordered == [n \in 1..Len(file) |-> dated[p[n]]]
    IN  [n \in 1..Len(file) |->
            ordered[n]
            @@ Col("CATEGORY", CATEGORY[ordered[n]["DESCRIPTION"]])
            @@ Col("MONTH-YEAR", strftime(ordered[n]["TRANS. DATE"]))
            @@ Col("RICE KG", RICE_KG[ordered[n]["DESCRIPTION"]])]

\* process_data(file), with p the order sort_values put the rows in.
process_data(file, p) ==
    LET df == enriched(file, p)
    IN  [original |-> df,
         summary |-> summary_df(df),
         category_pivot |-> category_pivot(df),
         rice_summary |-> rice_summary(df),
         category_dfs |-> category_dfs(df)]

(***************************************************************************)
(* Spec: main, run by Streamlit once for every change of the uploader      *)
(***************************************************************************)
Init ==
    /\ uploaded_file = None
    /\ processed_data = None
    /\ description = ""
    /\ category = None
    /\ rice_kg = None
    /\ similar = None

\* main with a file in the uploader: process_data(uploaded_file).
MainWithFile ==
    /\ uploaded_file = None
    /\ \E file \in Files :
          /\ uploaded_file' = Some(file)
          /\ \E p \in Permutations(1..Len(file)) :
                /\ IsSortOrder([n \in 1..Len(file) |->
                                   Col("TRANS. DATE", to_datetime(file[n]["TRANS. DATE"]))], p)
                /\ processed_data' = Some(process_data(file, p))
    /\ UNCHANGED <<description, category, rice_kg, similar>>

\* main with the uploader emptied: nothing is processed.
MainWithoutFile ==
    /\ uploaded_file # None
    /\ uploaded_file' = None
    /\ processed_data' = None
    /\ UNCHANGED <<description, category, rice_kg, similar>>

Next == MainWithFile \/ MainWithoutFile

Spec == Init /\ [][Next]_vars

(***************************************************************************)
(* SpecText: the pure functions applied to a description                   *)
(***************************************************************************)
\* The most phrases a description of the model is made of.
MaxPhrases == 2

Phrases ==
    <<"beras", "Beras", "5kg dan 3kg", "10", "KG", "AQUA galon", "bersih",
      "Training mini dan jumat bersih", "bras", "pelatian">>

RECURSIVE JoinStrings(_)
\* The strings of a list, with a space between them.
JoinStrings(s) ==
    IF s = <<>> THEN ""
    ELSE IF Len(s) = 1 THEN s[1]
    ELSE s[1] \o " " \o JoinStrings(Tail(s))

\* The descriptions of the model: up to MaxPhrases phrases, space separated.
Descriptions ==
    UNION {{JoinStrings([n \in 1..k |-> Phrases[f[n]]]) : f \in [1..k -> 1..Len(Phrases)]} :
             k \in 0..MaxPhrases}

\* The thresholds of the model: the default, and one no score reaches.
Thresholds == {DefaultThreshold, 101}

InitText ==
    /\ description \in Descriptions
    /\ category = None
    /\ rice_kg = None
    /\ similar = None
    /\ uploaded_file = None
    /\ processed_data = None

\* category = categorize_description(description)
Categorize ==
    /\ category = None
    /\ similar = None
    /\ category' = Some(categorize_description(Str(description)))
    /\ UNCHANGED <<description, rice_kg, similar, uploaded_file, processed_data>>

\* rice_kg = extract_rice_quantity(description)
Extract ==
    /\ rice_kg = None
    /\ similar = None
    /\ rice_kg' = Some(extract_rice_quantity(Str(description)))
    /\ UNCHANGED <<description, category, similar, uploaded_file, processed_data>>

\* is_similar(description, keywords, threshold) on the keywords of a category
Similar ==
    /\ category = None
    /\ rice_kg = None
    /\ similar = None
    /\ \E c \in DOMAIN categories, threshold \in Thresholds :
          similar' = Some([keywords |-> categories[c], threshold |-> threshold,
                           ret |-> is_similar(Str(description), Strs(categories[c]), threshold)])
    /\ UNCHANGED <<description, category, rice_kg, uploaded_file, processed_data>>

NextText == Categorize \/ Extract \/ Similar

SpecText == InitText /\ [][NextText]_vars

(***************************************************************************)
(* Properties of the pure functions, under SpecText                        *)
(***************************************************************************)
\* The description of the state, lower-cased.
Lowered == lower(Str(description))

\* The categories whose keywords is_similar matches in the description at the
\* default threshold.
SimilarCategories ==
    {c \in DOMAIN categories : is_similar(Str(description), Strs(categories[c]), DefaultThreshold)}

\* The categories other than BERAS and LAINNYA one of whose keywords occurs in
\* the description.
DirectOthers ==
    {c \in DOMAIN categories \ {"BERAS"} :
        \E n \in 1..Len(categories[c]) : Contains(Lowered, Str(categories[c][n]))}

\* C1: a description that contains "beras", in any case, is categorized BERAS,
\* whatever keywords of other categories it also contains.
C1_BerasPreempts ==
    (category # None /\ Contains(Lowered, Str("beras"))) => category = Some("BERAS")

\* C1 witness: a description with "beras" and a keyword of another category
\* has been categorized BERAS.
C1_Witness ==
    /\ category = Some("BERAS")
    /\ Contains(Lowered, Str("beras"))
    /\ DirectOthers # {}

\* C2 as stated: a description that matches two or more categories other than
\* BERAS is categorized LAINNYA.
C2_TwoMatchesGiveFallback ==
    (category # None /\ Cardinality(SimilarCategories \ {"BERAS"}) >= 2)
        => category = Some("LAINNYA")

\* C2 amended: a description that does not match BERAS and matches two or
\* more other categories is categorized LAINNYA.
C2_TwoMatchesWithoutBerasGiveFallback ==
    (/\ category # None
     /\ "BERAS" \notin SimilarCategories
     /\ Cardinality(SimilarCategories) >= 2)
        => category = Some("LAINNYA")

\* C2 witness: a description matching two categories, neither of them BERAS,
\* has been categorized LAINNYA.
C2_Witness ==
    /\ category = Some("LAINNYA")
    /\ "BERAS" \notin SimilarCategories
    /\ Cardinality(SimilarCategories) >= 2

\* C3 as stated: extraction is not gated by the category, so that, quantities
\* greater than 0 being extracted at all, some description is categorized
\* LAINNYA while a quantity greater than 0 is extracted from it.
C3_FallbackRowWithRiceExists ==
    (rice_kg # None /\ rice_kg[1] > 0)
        => \E d \in Descriptions :
              /\ categorize_description(Str(d)) = "LAINNYA"
              /\ extract_rice_quantity(Str(d)) > 0

\* What the code does instead: a description with a quantity greater than 0 is
\* never categorized anything but BERAS.
RiceOnlyInBeras ==
    (category # None /\ rice_kg # None /\ rice_kg[1] > 0) => category = Some("BERAS")

RECURSIVE Pow10(_)
Pow10(n) == IF n = 0 THEN 1 ELSE 10 * Pow10(n - 1)

\* The unit tokens of a quantity mention.
UnitTokens == {"kg", "kilo", "kilogram"}

\* The quantity mentions of a text: the maximal runs of digits t[i..j] that a
\* unit token follows after optional whitespace.
Mentions(t) ==
    {r \in (1..Len(t)) \X (1..Len(t)) :
        /\ r[1] <= r[2]
        /\ \A n \in r[1]..r[2] : IsDigit(t[n])
        /\ (r[1] = 1 \/ ~IsDigit(t[r[1] - 1]))
        /\ (r[2] = Len(t) \/ ~IsDigit(t[r[2] + 1]))
        /\ \E k \in r[2]..Len(t) :
              /\ \A n \in (r[2] + 1)..k : IsSpace(t[n])
              /\ \E u \in UnitTokens : OccursAt(Str(u), t, k)}

\* The number a run of digits t[i..j] writes.
RunValue(t, r) == SumSeq([n \in 1..(r[2] - r[1] + 1) |-> (t[r[1] + n - 1] - 48) * Pow10(r[2] - r[1] + 1 - n)])

RECURSIVE SumMentions(_, _)
SumMentions(t, M) ==
    IF M = {} THEN 0
    ELSE LET r == CHOOSE x \in M : TRUE IN RunValue(t, r) + SumMentions(t, M \ {r})

\* C6: extract_rice_quantity returns the sum of all the quantity mentions of a
\* description that contains "beras" in any case, and 0 when "beras" is absent
\* or there is no mention; "beras 5kg dan 3kg" gives 8.
C6_SumOfAllMentions ==
    rice_kg # None =>
        /\ rice_kg[1] = IF Contains(Lowered, Str("beras"))
                        THEN SumMentions(Lowered, Mentions(Lowered))
                        ELSE 0
        /\ (description = "beras 5kg dan 3kg" => rice_kg[1] = 8)

\* C6 witness: the quantity of a description with "beras" and two mentions has
\* been extracted as their sum.
C6_Witness ==
    /\ rice_kg # None
    /\ Contains(Lowered, Str("beras"))
    /\ Cardinality(Mentions(Lowered)) = 2
    /\ rice_kg[1] = 8

\* C8: a description that matches no category through is_similar is
\* categorized LAINNYA, and the empty keyword list of LAINNYA matches nothing.
C8_NoMatchGivesFallback ==
    /\ (category # None /\ SimilarCategories = {}) => category = Some("LAINNYA")
    /\ (similar # None /\ similar[1].keywords = <<>>) => ~similar[1].ret

\* C8 witness: a non-empty description that matches no category has been
\* categorized LAINNYA.
C8_Witness ==
    /\ description # ""
    /\ category = Some("LAINNYA")
    /\ SimilarCategories = {}

\* C9: when a keyword occurs in the text, in any case, is_similar returns true
\* whatever the threshold.
C9_DirectMatchIgnoresThreshold ==
    (/\ similar # None
     /\ \E n \in 1..Len(similar[1].keywords) :
           Contains(Lowered, lower(Str(similar[1].keywords[n]))))
        => similar[1].ret

\* C9 witness: is_similar has returned true for a text containing a keyword,
\* at a threshold above every score.
C9_Witness ==
    /\ similar # None
    /\ similar[1].threshold > 100
    /\ \E n \in 1..Len(similar[1].keywords) :
          Contains(Lowered, lower(Str(similar[1].keywords[n])))
    /\ similar[1].ret

(***************************************************************************)
(* Properties of process_data, under Spec                                  *)
(***************************************************************************)
\* The tables of the last run of process_data.
Original == processed_data[1].original
Summary == processed_data[1].summary
Pivot == processed_data[1].category_pivot

\* The calendar month a MONTH-YEAR key "Mon, YYYY" names, as months since year 0.
PeriodOf(key) ==
    LET m == CHOOSE n \in 1..12 : MonthAbbr[n] = SubSeq(key, 1, 3)
    IN  12 * int(Str(SubSeq(key, 6, 9))) + m

\* The MONTH-YEAR keys of the rows whose date was parsed.
PeriodsOfRows == {Original[n]["MONTH-YEAR"] : n \in 1..Len(Original)} \ {NaN}

\* The DEBIT total of the rows r of the table that satisfy P.
DebitWhere(P(_)) == Sum(SelectSeq(Original, P), "DEBIT")

RECURSIVE SumOver(_, _)
\* The sum of the values of f over the set S of its arguments.
SumOver(f, S) ==
    IF S = {} THEN 0
    ELSE LET x == CHOOSE y \in S : TRUE IN f[x] + SumOver(f, S \ {x})

\* C4: the summary has one row per distinct period, the rows in chronological
\* order of their periods.
C4_SummaryChronological ==
    processed_data # None =>
        /\ {Summary[n]["MONTH-YEAR"] : n \in 1..Len(Summary)} = PeriodsOfRows
        /\ Len(Summary) = Cardinality(PeriodsOfRows)
        /\ \A i, j \in 1..Len(Summary) :
              i < j => PeriodOf(Summary[i]["MONTH-YEAR"]) < PeriodOf(Summary[j]["MONTH-YEAR"])

\* C5: a row whose date is unparsable has a defined MONTH-YEAR key and the
\* summary has a row for that key.
C5_UnparsableDateRowIsGrouped ==
    processed_data # None =>
        \A n \in 1..Len(Original) :
            Original[n]["TRANS. DATE"] = NaT =>
                /\ Original[n]["MONTH-YEAR"] # NaN
                /\ \E k \in 1..Len(Summary) :
                      Summary[k]["MONTH-YEAR"] = Original[n]["MONTH-YEAR"]

\* C7: for every period of the rows and every category of the whole table, the
\* pivot has a cell, and it holds the DEBIT total of the rows of that period and
\* category (0 when there are none).
C7_PivotCoversAllCategories ==
    processed_data # None =>
        \A period \in PeriodsOfRows :
            \A c \in {Original[n]["CATEGORY"] : n \in 1..Len(Original)} :
                \E k \in 1..Len(Pivot) :
                    /\ Pivot[k]["MONTH-YEAR"] = period
                    /\ c \in DOMAIN Pivot[k]
                    /\ Pivot[k][c] = DebitWhere(LAMBDA row : row["MONTH-YEAR"] = period
                                                              /\ row["CATEGORY"] = c)

\* C10: the summary and the pivot hold the same periods, and the cells of a
\* pivot row add up to the DEBIT of the summary row of its period.
C10_PivotReconcilesWithSummary ==
    processed_data # None =>
        /\ Len(Pivot) = Len(Summary)
        /\ \A k \in 1..Len(Pivot) :
              /\ Pivot[k]["MONTH-YEAR"] = Summary[k]["MONTH-YEAR"]
              /\ SumOver(Pivot[k], DOMAIN Pivot[k] \ {"MONTH-YEAR"}) = Summary[k]["DEBIT"]

\* C10 witness: a table with a row of unparsable date and a row of a parsed
\* one has been processed, and the pivot has a row.
C10_Witness ==
    /\ processed_data # None
    /\ \E n \in 1..Len(Original) : Original[n]["TRANS. DATE"] = NaT
    /\ Len(Pivot) >= 1
    /\ Pivot[1][Original[1]["CATEGORY"]] > 0

=============================================================================
